---------------------------- MODULE Spec2Model ----------------------------
(* A model of ImgToPDF.py: natural-order sorting of file names, the brace- *)
(* aware tokenizer of drop payloads, the selection handlers of            *)
(* ImageToPdfApp and the assembly of the selected images into a PDF.      *)
(*                                                                        *)
(* A string is a sequence of one-character strings, so that the code's    *)
(* character loops and regular-expression splits are computed and not     *)
(* assumed.                                                               *)
EXTENDS Integers, Sequences, FiniteSets, TLC

VARIABLES
    nameA, nameB,         \* two file names handed to natural_key
    keys,                 \* their keys once natural_key has run, or NoKeys
    raw,                  \* event.data of the drop being tokenized
    pos,                  \* index of the next character of raw the loop reads
    buf, in_brace, paths, \* the tokenizer's locals
    sent,                 \* the paths the drag source wrote into raw, or Unformatted
    state,                \* ImageToPdfApp.state (a SelectionState)
    recursive_var,        \* the "include sub-folders" check box
    custom_output_dir,    \* ImageToPdfApp.custom_output_dir, or None
    notice,               \* the message box the last handler showed
    pc,                   \* where the interaction thread is
    conv,                 \* arguments of the running convert_images_to_pdf
    prior,                \* what was at conv.out when the call started
    outcome,              \* how the last convert_images_to_pdf call ended
    outputs,              \* files written below the output folders
    madeDirs,             \* directories created by convert_images_to_pdf
    now                   \* the clock, in seconds

keyVars == <<nameA, nameB, keys>>
tokVars == <<raw, pos, buf, in_brace, paths, sent>>
appVars == <<state, recursive_var, custom_output_dir, notice, pc, conv,
             prior, outcome, outputs, madeDirs, now>>
vars == <<keyVars, tokVars, appVars>>

\* None, for an Optional[Path]: no path is the empty string here (the file
\* dialogs return "" when cancelled, and the handlers return on it).
None == <<>>

-----------------------------------------------------------------------------
(* Characters.                                                            *)

Digits == {"0", "1", "2"}
Whitespace == {" "}

\* ord(ch) for the characters the model uses.
Ord(ch) ==
    CASE ch = " " -> 32 [] ch = "." -> 46 [] ch = "/" -> 47
      [] ch = "0" -> 48 [] ch = "1" -> 49 [] ch = "2" -> 50
      [] ch = "A" -> 65 [] ch = "G" -> 71 [] ch = "J" -> 74
      [] ch = "N" -> 78 [] ch = "P" -> 80 [] ch = "_" -> 95
      [] ch = "a" -> 97 [] ch = "b" -> 98 [] ch = "d" -> 100
      [] ch = "e" -> 101 [] ch = "f" -> 102 [] ch = "g" -> 103
      [] ch = "j" -> 106 [] ch = "l" -> 108 [] ch = "m" -> 109
      [] ch = "n" -> 110 [] ch = "o" -> 111 [] ch = "p" -> 112
      [] ch = "r" -> 114 [] ch = "s" -> 115 [] ch = "t" -> 116
      [] ch = "u" -> 117 [] ch = "x" -> 120 [] ch = "z" -> 122
      [] ch = "{" -> 123 [] ch = "}" -> 125

\* str.lower() on one character.
LowerChar(ch) ==
    CASE ch = "A" -> "a" [] ch = "G" -> "g" [] ch = "J" -> "j"
      [] ch = "N" -> "n" [] ch = "P" -> "p" [] OTHER -> ch

Lower(s) == [i \in 1..Len(s) |-> LowerChar(s[i])]

\* str.isdigit(): non-empty and every character a digit.
IsDigitStr(s) == Len(s) > 0 /\ \A i \in 1..Len(s) : s[i] \in Digits

\* int(s) of a digit string.
RECURSIVE IntOf(_)
IntOf(s) ==
    IF s = <<>> THEN 0
    ELSE 10 * IntOf(SubSeq(s, 1, Len(s) - 1)) + (Ord(s[Len(s)]) - 48)

-----------------------------------------------------------------------------
(* natural_key.                                                           *)

\* re.split(r"(\d+)", name): the text between the digit runs and, because of
\* the capturing group, the digit runs themselves; text and digit runs
\* alternate, the first and the last part being text (possibly empty).
\* cur is the part being read and inDigits tells whether it is a digit run.
RECURSIVE SplitFrom(_, _, _, _)
SplitFrom(s, i, cur, inDigits) ==
    IF i > Len(s) THEN (IF inDigits THEN <<cur, <<>>>> ELSE <<cur>>)
    ELSE IF (s[i] \in Digits) = inDigits
         THEN SplitFrom(s, i + 1, Append(cur, s[i]), inDigits)
         ELSE <<cur>> \o SplitFrom(s, i + 1, <<s[i]>>, ~inDigits)

ReSplitDigits(s) == SplitFrom(s, 1, <<>>, FALSE)

\* One element of the key: int(part) if part.isdigit() else part.lower().
IntElem(n) == [isInt |-> TRUE, int |-> n, str |-> <<>>]
StrElem(s) == [isInt |-> FALSE, int |-> 0, str |-> s]

\* A key that keeps the letters' case.
KeyElemNoLower(part) ==
    IF IsDigitStr(part) THEN IntElem(IntOf(part)) ELSE StrElem(part)

KeyElem(part) ==
    IF IsDigitStr(part) THEN IntElem(IntOf(part)) ELSE StrElem(Lower(part))

\* natural_key(p) for a path whose p.name is name.
natural_key(name) ==
    LET parts == ReSplitDigits(name)
    IN  [i \in 1..Len(parts) |-> KeyElem(parts[i])]

\* Python's str < str: by code point, a proper prefix first.
RECURSIVE StrCmp(_, _)
StrCmp(s, t) ==
    IF s = <<>> THEN (IF t = <<>> THEN "eq" ELSE "lt")
    ELSE IF t = <<>> THEN "gt"
    ELSE IF Ord(Head(s)) < Ord(Head(t)) THEN "lt"
    ELSE IF Ord(Head(s)) > Ord(Head(t)) THEN "gt"
    ELSE StrCmp(Tail(s), Tail(t))

\* Comparison of two key elements; an int against a str raises TypeError.
ElemCmp(x, y) ==
    IF x.isInt /\ y.isInt
    THEN (IF x.int < y.int THEN "lt" ELSE IF x.int > y.int THEN "gt" ELSE "eq")
    ELSE IF ~x.isInt /\ ~y.isInt THEN StrCmp(x.str, y.str)
    ELSE "TypeError"

\* Python's tuple comparison: the first position where the elements differ
\* decides; a proper prefix sorts first.
RECURSIVE KeyCmp(_, _)
KeyCmp(k, l) ==
    IF k = <<>> THEN (IF l = <<>> THEN "eq" ELSE "lt")
    ELSE IF l = <<>> THEN "gt"
    ELSE IF Head(k) = Head(l) THEN KeyCmp(Tail(k), Tail(l))
    ELSE ElemCmp(Head(k), Head(l))

KeyLt(k, l) == KeyCmp(k, l) = "lt"

\* The order natural_key induces on names.
NameLt(a, b) == KeyLt(natural_key(a), natural_key(b))

-----------------------------------------------------------------------------
(* The names natural_key is checked on.                                   *)

MaxNameLen == 3
NameChars == {"a", "A", "0", "1"}

SeqsUpTo(S, n) == UNION {[1..k -> S] : k \in 1..n}
Names == SeqsUpTo(NameChars, MaxNameLen)

NoKeys == <<>>

KeyInit ==
    /\ nameA \in Names
    /\ nameB \in Names
    /\ keys = NoKeys

KeyIdle == nameA = <<>> /\ nameB = <<>> /\ keys = NoKeys

\* key = natural_key(p) for both names, as list.sort(key=natural_key) does
\* before it compares.
ComputeKeys ==
    /\ keys = NoKeys
    /\ keys' = <<natural_key(nameA), natural_key(nameB)>>
    /\ UNCHANGED <<nameA, nameB, tokVars, appVars>>

-----------------------------------------------------------------------------
(* The tokenizer of on_drop.                                              *)

IsSpace(ch) == ch \in Whitespace

TokStart == [buf |-> <<>>, in_brace |-> FALSE, paths |-> <<>>]

\* if buf: paths.append(buf); buf = ""
EmitBuf(st) ==
    IF st.buf # <<>>
    THEN [st EXCEPT !.paths = Append(st.paths, st.buf), !.buf = <<>>]
    ELSE st

\* A loop body that lets whitespace end a token inside braces too.
TokStepNoBraceState(st, ch) ==
    IF ch = "{" THEN [st EXCEPT !.in_brace = TRUE, !.buf = <<>>]
    ELSE IF ch = "}" THEN EmitBuf([st EXCEPT !.in_brace = FALSE])
    ELSE IF IsSpace(ch) THEN EmitBuf(st)
    ELSE [st EXCEPT !.buf = Append(st.buf, ch)]

\* The body of "for ch in raw".
TokStep(st, ch) ==
    IF ch = "{" THEN [st EXCEPT !.in_brace = TRUE, !.buf = <<>>]
    ELSE IF ch = "}" THEN EmitBuf([st EXCEPT !.in_brace = FALSE])
    ELSE IF IsSpace(ch) /\ ~st.in_brace THEN EmitBuf(st)
    ELSE [st EXCEPT !.buf = Append(st.buf, ch)]

RECURSIVE TokLoop(_, _, _)
TokLoop(st, data, i) ==
    IF i > Len(data) THEN st ELSE TokLoop(TokStep(st, data[i]), data, i + 1)

\* The list "paths" on_drop builds from event.data: the loop, then the
\* flush of the token in progress.
Tokenize(data) == EmitBuf(TokLoop(TokStart, data, 1)).paths

-----------------------------------------------------------------------------
(* Drop payloads the tokenizer is checked on: every string over RawChars  *)
(* of at most MaxRaw characters, and among them the payloads a drag       *)
(* source formats from a list of paths.                                   *)

MaxRaw == 6
RawChars == {"a", "b", " ", "{", "}"}
Braces == {"{", "}"}

RawStrings == {<<>>} \cup SeqsUpTo(RawChars, MaxRaw)

HasSpace(p) == \E i \in 1..Len(p) : IsSpace(p[i])
HasBrace(p) == \E i \in 1..Len(p) : p[i] \in Braces

\* How a drag source writes one path: in braces when it contains whitespace.
Wrap(p) == IF HasSpace(p) THEN <<"{">> \o p \o <<"}">> ELSE p

\* The payload of a list of paths, gap being the whitespace between two.
RECURSIVE Payload(_, _)
Payload(ps, gap) ==
    IF ps = <<>> THEN <<>>
    ELSE IF Len(ps) = 1 THEN Wrap(ps[1])
    ELSE Wrap(ps[1]) \o gap \o Payload(Tail(ps), gap)

Gaps == {<<" ">>, <<" ", " ">>}

\* The non-empty lists of paths over RawChars whose payload has at most n
\* characters.
RECURSIVE PathLists(_, _)
PathLists(n, gap) ==
    IF n < 1 THEN {}
    ELSE LET fit == {p \in SeqsUpTo(RawChars, n) : Len(Wrap(p)) <= n}
         IN  {<<p>> : p \in fit}
             \cup UNION {{<<p>> \o r : r \in PathLists(n - Len(Wrap(p)) - Len(gap), gap)}
                         : p \in fit}

Unformatted == [formatted |-> FALSE, paths |-> <<>>]
Formatted(ps) == [formatted |-> TRUE, paths |-> ps]

TokInit ==
    /\ \/ /\ raw \in RawStrings
          /\ sent = Unformatted
       \/ \E gap \in Gaps : \E ps \in PathLists(MaxRaw, gap) :
            /\ raw = Payload(ps, gap)
            /\ sent = Formatted(ps)
    /\ pos = 1
    /\ buf = <<>>
    /\ in_brace = FALSE
    /\ paths = <<>>

TokIdle ==
    /\ raw = <<>> /\ sent = Unformatted
    /\ pos = 0 /\ buf = <<>> /\ in_brace = FALSE /\ paths = <<>>

TokDone == pos = Len(raw) + 2

\* One iteration of "for ch in raw".
ScanChar ==
    /\ pos >= 1 /\ pos <= Len(raw)
    /\ LET st == TokStep([buf |-> buf, in_brace |-> in_brace, paths |-> paths],
                         raw[pos])
       IN  /\ buf' = st.buf
           /\ in_brace' = st.in_brace
           /\ paths' = st.paths
    /\ pos' = pos + 1
    /\ UNCHANGED <<raw, sent, keyVars, appVars>>

\* After the loop: if buf: paths.append(buf).
FlushAtEnd ==
    /\ pos = Len(raw) + 1
    /\ LET st == EmitBuf([buf |-> buf, in_brace |-> in_brace, paths |-> paths])
       IN  paths' = st.paths
    /\ pos' = pos + 1
    /\ UNCHANGED <<raw, sent, buf, in_brace, keyVars, appVars>>

-----------------------------------------------------------------------------
(* The file system the application runs on. Paths are absolute, without   *)
(* "." or ".." and without symbolic links, so a path is its own resolve().*)

DirD == <<"/", "d">>
DirS == <<"/", "d", "/", "s">>
DirO == <<"/", "o">>
File1 == DirD \o <<"/", "1", ".", "p", "n", "g">>
File01 == DirD \o <<"/", "0", "1", ".", "p", "n", "g">>
FileTxt == DirD \o <<"/", "b", ".", "t", "x", "t">>
FileA2 == DirS \o <<"/", "a", " ", "2", ".", "J", "P", "G">>
Missing == <<"/", "z">>

Dirs == {DirD, DirS, DirO}
Files == {File1, File01, FileTxt, FileA2}

\* Files whose extension says image and whose bytes no decoder accepts.
Corrupt == {FileA2}

\* Pixel sizes (width, height) of the images that can be opened.
ImageSize(p) == IF p = File01 THEN <<7000, 6000>> ELSE <<800, 600>>

exists(p) == p \in Dirs \cup Files
is_dir(p) == p \in Dirs
is_file(p) == p \in Files

\* Index of the last occurrence of ch in s, 0 when there is none.
LastIndexOf(s, ch) ==
    LET hits == {i \in 1..Len(s) : s[i] = ch}
    IN  IF hits = {} THEN 0 ELSE CHOOSE i \in hits : \A j \in hits : j <= i

\* Path.name: the last component.
Name(p) == SubSeq(p, LastIndexOf(p, "/") + 1, Len(p))

\* Path.parent.
Parent(p) ==
    LET i == LastIndexOf(p, "/")
    IN  IF i <= 1 THEN <<"/">> ELSE SubSeq(p, 1, i - 1)

\* Path.suffix: the name from its last dot on, when that dot is neither the
\* first nor the last character of the name.
Suffix(p) ==
    LET n == Name(p)
        i == LastIndexOf(n, ".")
    IN  IF i > 1 /\ i < Len(n) THEN SubSeq(n, i, Len(n)) ELSE <<>>

\* Path / name
Join(dir, n) == IF dir = <<"/">> THEN dir \o n ELSE dir \o <<"/">> \o n

SUPPORTED_EXTS ==
    {<<".", "j", "p", "g">>, <<".", "j", "p", "e", "g">>, <<".", "p", "n", "g">>}

is_image(p) == is_file(p) /\ Lower(Suffix(p)) \in SUPPORTED_EXTS

IsPrefix(s, t) == Len(s) <= Len(t) /\ SubSeq(t, 1, Len(s)) = s

\* The entries folder.glob("*") or folder.glob("**/*") yields, as a set.
Glob(folder, recursive) ==
    IF ~is_dir(folder) THEN {}
    ELSE {e \in Dirs \cup Files :
            IF recursive THEN IsPrefix(folder \o <<"/">>, e)
            ELSE e # folder /\ Parent(e) = folder}

\* A function computed once, point by point, and then looked up.
Tabulated(f) == f @@ <<>>

\* The orders in which the file system may list a set of entries.
Perms(S) ==
    {f \in [1..Cardinality(S) -> S] :
        \A i, j \in 1..Cardinality(S) : f[i] = f[j] => i = j}

Filter(seq, Keep(_)) == SelectSeq(seq, Keep)

\* list.sort(key=natural_key): a stable sort, so an element goes before the
\* first one whose key is strictly greater.
RECURSIVE InsertByKey(_, _)
InsertByKey(x, sorted) ==
    IF sorted = <<>> THEN <<x>>
    ELSE IF NameLt(Name(x), Name(Head(sorted)))
         THEN <<x>> \o sorted
         ELSE <<Head(sorted)>> \o InsertByKey(x, Tail(sorted))

RECURSIVE SortFrom(_, _, _)
SortFrom(seq, i, sorted) ==
    IF i > Len(seq) THEN sorted
    ELSE SortFrom(seq, i + 1, InsertByKey(seq[i], sorted))

SortByNaturalKey(seq) == SortFrom(seq, 1, <<>>)

\* list_images_in_folder, given the order in which glob listed the folder.
list_images_in_folder(listing) == SortByNaturalKey(Filter(listing, is_image))

\* What list_images_in_folder(folder, recursive) may return: one result for
\* each order in which the file system may list the folder.
FolderResultsTable ==
    Tabulated([f \in Dirs, r \in BOOLEAN |->
                 {list_images_in_folder(o) : o \in Perms(Glob(f, r))}])

FolderResults(folder, recursive) == FolderResultsTable[folder, recursive]

\* The components of an absolute path.
RECURSIVE Components(_)
Components(p) ==
    IF p = <<>> \/ p = <<"/">> THEN <<>>
    ELSE Append(Components(Parent(p)), Name(p))

RECURSIVE FromComponents(_)
FromComponents(cs) ==
    IF cs = <<>> THEN <<"/">>
    ELSE Join(FromComponents(SubSeq(cs, 1, Len(cs) - 1)), cs[Len(cs)])

\* os.path.commonpath: the longest common prefix, component by component.
CommonPath(ps) ==
    LET cs == [i \in 1..Len(ps) |-> Components(ps[i])]
        ok(n) == \A i \in 1..Len(ps) :
                    Len(cs[i]) >= n /\ SubSeq(cs[i], 1, n) = SubSeq(cs[1], 1, n)
        n == CHOOSE m \in 0..Len(cs[1]) :
                ok(m) /\ \A k \in 0..Len(cs[1]) : ok(k) => k <= m
    IN  FromComponents(SubSeq(cs[1], 1, n))

\* common_parent, for a non-empty list (the callers pass no empty one).
common_parent(ps) ==
    CommonPath([i \in 1..Len(ps) |-> IF is_file(ps[i]) THEN Parent(ps[i]) ELSE ps[i]])

-----------------------------------------------------------------------------
(* ImageToPdfApp.                                                         *)

SelectionState(mode, source, images) ==
    [mode |-> mode, source |-> source, images |-> images]

\* Path(p) of a token: pathlib drops trailing slashes.
RECURSIVE PathOf(_)
PathOf(tok) ==
    IF Len(tok) > 1 /\ tok[Len(tok)] = "/"
    THEN PathOf(SubSeq(tok, 1, Len(tok) - 1))
    ELSE tok

\* What the dialogs and the drag sources can hand to the handlers.
MaxDrop == 2
FolderChoices == Dirs \cup {<<>>}
FileChoices ==
    {fp : fp \in {<<>>} \cup
        UNION {UNION {Perms(S) : S \in (SUBSET {f \in Files : Parent(f) = d}) \ {{}}}
               : d \in Dirs}}
DropItems == Dirs \cup Files \cup {Missing}
DropLists == UNION {[1..k -> DropItems] : k \in 1..MaxDrop}
DropPayloads == {<<>>} \cup {Payload(ps, <<" ">>) : ps \in DropLists}
SingleDrops == {<<>>} \cup {Payload(<<p>>, <<" ">>) : p \in DropItems}
OutputChoices == {DirO, <<>>}

MaxClock == 1
MaxOutputs == 1

DigitChar(n) == <<"0", "1", "2", "3", "4", "5", "6", "7", "8", "9">>[(n % 10) + 1]

\* datetime.now().strftime("%Y%m%d_%H%M%S"), the clock counting the seconds
\* of one day.
Strftime(t) ==
    <<"2", "0", "2", "0", "0", "1", "0", "1", "_", "0", "0", "0", "0">>
        \o <<DigitChar(t \div 10), DigitChar(t)>>

MergedName(ts) ==
    <<"m", "e", "r", "g", "e", "d", "_">> \o ts \o <<".", "p", "d", "f">>

HUGE_PIXELS == 40000000

\* warn_huge_images: the images of at least 40 megapixels; one that cannot
\* be opened is skipped.
warn_huge_images(images) ==
    LET huge(p) == /\ is_file(p) /\ p \notin Corrupt
                   /\ ImageSize(p)[1] * ImageSize(p)[2] >= HUGE_PIXELS
        rec(p) == [name |-> Name(p), w |-> ImageSize(p)[1], h |-> ImageSize(p)[2]]
        kept == SelectSeq(images, huge)
    IN  [i \in 1..Len(kept) |-> rec(kept[i])]

NoConv == [images |-> <<>>, out |-> <<>>, caller |-> "none", warnings |-> <<>>]
NoFiles == [p \in {} |-> <<>>]

AppInit ==
    /\ state = SelectionState("folder", None, <<>>)
    /\ recursive_var = FALSE
    /\ custom_output_dir = None
    /\ notice = "none"
    /\ pc = "idle"
    /\ conv = NoConv
    /\ prior = NoFiles
    /\ outcome = "none"
    /\ outputs = NoFiles
    /\ madeDirs = {}
    /\ now = 0

\* Tk runs one callback at a time on the thread of root.mainloop(): a
\* handler starts only when no other is running.
MainloopIdle == pc = "idle"

fsVars == <<outputs, madeDirs>>
runVars == <<pc, conv, prior, outcome>>

\* The check box "include sub-folders".
ToggleRecursive ==
    /\ MainloopIdle
    /\ recursive_var' = ~recursive_var
    /\ UNCHANGED <<keyVars, tokVars, state, custom_output_dir, notice, runVars, fsVars, now>>

pick_folder(folder) ==
    /\ MainloopIdle
    /\ IF folder = <<>>
       THEN state' = state /\ notice' = "none"
       ELSE \E images \in FolderResults(folder, recursive_var) :
              /\ state' = SelectionState("folder", folder, images)
              /\ notice' = IF images = <<>> THEN "folder_empty" ELSE "none"
    /\ UNCHANGED <<keyVars, tokVars, recursive_var, custom_output_dir, runVars, fsVars, now>>

\* Lines 284-290 of pick_files: the images among the chosen files, sorted,
\* and their common parent.
FilesOutcome(filepaths) ==
    LET files == Filter(filepaths, is_image)
        sorted == SortByNaturalKey(files)
    IN  [images |-> sorted,
         source |-> IF sorted = <<>> THEN None ELSE common_parent(sorted)]

FilesOutcomeTable ==
    Tabulated([filepaths \in FileChoices |-> FilesOutcome(filepaths)])

\* A pick_files that replaces the selection before it looks at the files.
pick_files_replace_first(filepaths) ==
    /\ MainloopIdle
    /\ LET picked == FilesOutcomeTable[filepaths]
       IN  IF filepaths = <<>>
           THEN state' = state /\ notice' = "none"
           ELSE /\ state' = SelectionState("files", picked.source, picked.images)
                /\ notice' = IF picked.images = <<>> THEN "files_none" ELSE "none"
    /\ UNCHANGED <<keyVars, tokVars, recursive_var, custom_output_dir, runVars, fsVars, now>>

pick_files(filepaths) ==
    /\ MainloopIdle
    /\ LET picked == FilesOutcomeTable[filepaths]
       IN  IF filepaths = <<>>
           THEN state' = state /\ notice' = "none"
           ELSE IF picked.images = <<>>
           THEN state' = state /\ notice' = "files_none"
           ELSE /\ state' = SelectionState("files", picked.source, picked.images)
                /\ notice' = "none"
    /\ UNCHANGED <<keyVars, tokVars, recursive_var, custom_output_dir, runVars, fsVars, now>>

IsExistingDir(p) == exists(p) /\ is_dir(p)
IsExistingImage(p) == exists(p) /\ is_image(p)

\* Lines 305-345 of on_drop: the tokens of event.data as paths, the
\* directories among them, and the images among them, sorted, with their
\* common parent.
DropOutcome(data) ==
    LET toks == Tokenize(data)
        dropped == [i \in 1..Len(toks) |-> PathOf(toks[i])]
        files == Filter(dropped, IsExistingImage)
        sorted == SortByNaturalKey(files)
    IN  [folders |-> Filter(dropped, IsExistingDir),
         images |-> sorted,
         source |-> IF sorted = <<>> THEN None ELSE common_parent(sorted)]

DropOutcomeTable == Tabulated([data \in DropPayloads |-> DropOutcome(data)])

\* An on_drop that takes the last folder of the payload.
on_drop_last_folder(data) ==
    /\ MainloopIdle
    /\ LET d == DropOutcomeTable[data]
       IN  IF data = <<>>
           THEN state' = state /\ notice' = "none"
           ELSE IF d.folders # <<>>
           THEN \E images \in FolderResults(d.folders[Len(d.folders)], recursive_var) :
                  /\ state' = SelectionState("folder", d.folders[Len(d.folders)], images)
                  /\ notice' = IF images = <<>> THEN "drop_folder_empty" ELSE "none"
           ELSE IF d.images = <<>>
           THEN state' = state /\ notice' = "drop_none"
           ELSE /\ state' = SelectionState("files", d.source, d.images)
                /\ notice' = "none"
    /\ UNCHANGED <<keyVars, tokVars, recursive_var, custom_output_dir, runVars, fsVars, now>>

on_drop(data) ==
    /\ MainloopIdle
    /\ LET d == DropOutcomeTable[data]
       IN  IF data = <<>>
           THEN state' = state /\ notice' = "none"
           ELSE IF d.folders # <<>>
           THEN \E images \in FolderResults(d.folders[1], recursive_var) :
                  /\ state' = SelectionState("folder", d.folders[1], images)
                  /\ notice' = IF images = <<>> THEN "drop_folder_empty" ELSE "none"
           ELSE IF d.images = <<>>
           THEN state' = state /\ notice' = "drop_none"
           ELSE /\ state' = SelectionState("files", d.source, d.images)
                /\ notice' = "none"
    /\ UNCHANGED <<keyVars, tokVars, recursive_var, custom_output_dir, runVars, fsVars, now>>

pick_output_folder(folder) ==
    /\ MainloopIdle
    /\ custom_output_dir' = IF folder # <<>> THEN folder ELSE custom_output_dir
    /\ notice' = "none"
    /\ UNCHANGED <<keyVars, tokVars, state, recursive_var, runVars, fsVars, now>>

-----------------------------------------------------------------------------
(* merge_to_pdf and convert_images_to_pdf. The handler calls the converter *)
(* on the interaction thread and returns when the converter has returned   *)
(* or raised; pc is the converter's position:                              *)
(*   "convert"  entered, before the check of image_paths                   *)
(*   "open"     the parent directory made, before output_pdf.open("wb")    *)
(*   "encode"   the file open and empty, before img2pdf.convert            *)

\* The model keeps at most MaxOutputs output files on disk.
CanWrite(out) == out \in DOMAIN outputs \/ Cardinality(DOMAIN outputs) < MaxOutputs

WriteFile(fs, path, content) ==
    [p \in DOMAIN fs \cup {path} |-> IF p = path THEN content ELSE fs[p]]

\* A guard of merge_to_pdf that only asks for a source.
MergeGuardSourceOnly == state.source = None

\* "if not self.state.source or not self.state.images": nothing to merge.
MergeGuard == state.source = None \/ state.images = <<>>

\* merge_to_pdf up to its call of convert_images_to_pdf.
MergeStart ==
    /\ MainloopIdle
    /\ IF MergeGuard
       THEN /\ notice' = "select_first"
            /\ UNCHANGED <<runVars>>
       ELSE LET out_dir == IF custom_output_dir # None THEN custom_output_dir
                           ELSE Join(state.source, <<"r", "e", "s", "u", "l", "t">>)
                out_pdf == Join(out_dir, MergedName(Strftime(now)))
                warnings == warn_huge_images(state.images)
            IN  /\ CanWrite(out_pdf)
                /\ notice' = IF warnings # <<>> THEN "huge_images" ELSE "none"
                /\ pc' = "convert"
                /\ conv' = [images |-> state.images, out |-> out_pdf,
                            caller |-> "merge", warnings |-> warnings]
                /\ prior' = outputs
                /\ outcome' = "none"
    /\ UNCHANGED <<keyVars, tokVars, state, recursive_var, custom_output_dir, fsVars, now>>

\* convert_images_to_pdf called by other code than merge_to_pdf.
DirectImageLists == {<<>>, <<File1>>, <<FileA2>>}

CallConvert ==
    /\ MainloopIdle
    /\ \E images \in DirectImageLists :
         LET out_pdf == Join(Join(DirD, <<"r", "e", "s", "u", "l", "t">>),
                             MergedName(Strftime(now)))
         IN  /\ images = <<>> \/ CanWrite(out_pdf)
             /\ conv' = [images |-> images, out |-> out_pdf,
                         caller |-> "direct", warnings |-> <<>>]
    /\ pc' = "convert"
    /\ prior' = outputs
    /\ outcome' = "none"
    /\ UNCHANGED <<keyVars, tokVars, state, recursive_var, custom_output_dir, notice, fsVars, now>>

\* The end of a call: back in merge_to_pdf (the success dialog, or the
\* except branch and its error box), or back in the direct caller.
Return(result) ==
    /\ outcome' = result
    /\ notice' = IF conv.caller # "merge" THEN notice
                 ELSE IF result = "ok" THEN "success" ELSE "error"
    /\ pc' = "idle"
    /\ conv' = NoConv
    /\ prior' = NoFiles

\* Lines 58-61: the check of image_paths, then mkdir(parents, exist_ok).
ConvCheck ==
    /\ pc = "convert"
    /\ IF conv.images = <<>>
       THEN Return("ValueError") /\ UNCHANGED madeDirs
       ELSE /\ madeDirs' = madeDirs \cup ({Parent(conv.out)} \ Dirs)
            /\ pc' = "open"
            /\ UNCHANGED <<conv, prior, outcome, notice>>
    /\ UNCHANGED <<keyVars, tokVars, state, recursive_var, custom_output_dir, outputs, now>>

\* output_pdf.open("wb"): the file is created, or truncated when it exists.
ConvOpen ==
    /\ pc = "open"
    /\ outputs' = WriteFile(outputs, conv.out, <<>>)
    /\ pc' = "encode"
    /\ UNCHANGED <<keyVars, tokVars, state, recursive_var, custom_output_dir, notice, conv,
                   prior, outcome, madeDirs, now>>

\* img2pdf.convert raises on an image it cannot decode.
Encodable(images) == \A i \in 1..Len(images) : images[i] \notin Corrupt

\* The document img2pdf.convert returns: one page for each image, in order.
Document(images) == [i \in 1..Len(images) |-> [page |-> i, image |-> images[i]]]

\* f.write(img2pdf.convert(...)) with every image decoded.
ConvEncodeOk ==
    /\ pc = "encode"
    /\ Encodable(conv.images)
    /\ outputs' = WriteFile(outputs, conv.out, Document(conv.images))
    /\ Return("ok")
    /\ UNCHANGED <<keyVars, tokVars, state, recursive_var, custom_output_dir, madeDirs, now>>

\* img2pdf.convert raises: the with block closes the file as it stands.
ConvEncodeFail ==
    /\ pc = "encode"
    /\ ~Encodable(conv.images)
    /\ Return("AssemblyError")
    /\ UNCHANGED <<keyVars, tokVars, state, recursive_var, custom_output_dir, fsVars, now>>

\* A second passes.
Tick ==
    /\ now < MaxClock
    /\ now' = now + 1
    /\ UNCHANGED <<keyVars, tokVars, state, recursive_var, custom_output_dir, notice, runVars, fsVars>>

-----------------------------------------------------------------------------
(* Specifications.                                                        *)

PickFolder == \E folder \in FolderChoices : pick_folder(folder)
PickFiles == \E filepaths \in FileChoices : pick_files(filepaths)
Drop == \E data \in DropPayloads : on_drop(data)
DropOne == \E data \in SingleDrops : on_drop(data)
PickOutputFolder == \E folder \in OutputChoices : pick_output_folder(folder)

\* The events by which the user selects images.
SelectionEvent == PickFolder \/ PickFiles \/ Drop

\* The application: selection, merge_to_pdf and convert_images_to_pdf, the
\* drops carrying one path each.
Init == AppInit /\ KeyIdle /\ TokIdle
Next ==
    \/ ToggleRecursive
    \/ PickFolder
    \/ PickFiles
    \/ DropOne
    \/ PickOutputFolder
    \/ MergeStart
    \/ CallConvert
    \/ ConvCheck
    \/ ConvOpen
    \/ ConvEncodeOk
    \/ ConvEncodeFail
    \/ Tick
Spec == Init /\ [][Next]_vars

\* The selection handlers alone, the drops carrying up to MaxDrop paths.
SelNext ==
    \/ ToggleRecursive
    \/ PickFolder
    \/ PickFiles
    \/ Drop
    \/ PickOutputFolder
SpecSel == Init /\ [][SelNext]_vars

\* natural_key on every pair of names.
InitKey == KeyInit /\ TokIdle /\ AppInit
SpecKey == InitKey /\ [][ComputeKeys]_vars

\* The tokenizer on every payload.
InitTok == TokInit /\ KeyIdle /\ AppInit
TokNext == ScanChar \/ FlushAtEnd
SpecTok == InitTok /\ [][TokNext]_vars

-----------------------------------------------------------------------------
(* Claims about natural_key (SpecKey).                                    *)

\* natural_key of every name, computed once.
KeyTable == Tabulated([n \in Names |-> natural_key(n)])

\* A "0" that only pads a digit run: every digit before it in its run is a
\* "0" and a digit follows it.
IsZeroPad(s, i) ==
    /\ s[i] = "0"
    /\ i < Len(s) /\ s[i + 1] \in Digits
    /\ \A j \in 1..i : (\A m \in j..i : s[m] \in Digits) => s[j] = "0"

\* The name in lower case and without the padding zeros of its digit runs.
RECURSIVE FoldFrom(_, _)
FoldFrom(s, i) ==
    IF i > Len(s) THEN <<>>
    ELSE IF IsZeroPad(s, i) THEN FoldFrom(s, i + 1)
    ELSE <<LowerChar(s[i])>> \o FoldFrom(s, i + 1)

Fold(s) == FoldFrom(s, 1)

KeysComputed == keys # NoKeys

\* If a sorts before b and b before c, then a sorts before c.
Transitive ==
    \A c \in Names :
        (KeyLt(keys[1], keys[2]) /\ KeyLt(keys[2], KeyTable[c]))
            => KeyLt(keys[1], KeyTable[c])

\* C3, as claimed: the order natural_key induces on file names is a strict
\* total order: it is transitive, and of two distinct names exactly one
\* sorts strictly before the other.
C3_StrictTotalOrder ==
    KeysComputed =>
        /\ Transitive
        /\ nameA # nameB => (KeyLt(keys[1], keys[2]) # KeyLt(keys[2], keys[1]))

\* C3, amended: the order is a strict weak order. Two keys are always
\* comparable (no int meets a str), never both before each other, the order
\* is transitive, and two names are tied (neither before the other) exactly
\* when they are equal up to letter case and padding zeros of digit runs;
\* tied names have equal keys.
C3_StrictWeakOrder ==
    KeysComputed =>
        /\ KeyCmp(keys[1], keys[2]) # "TypeError"
        /\ ~(KeyLt(keys[1], keys[2]) /\ KeyLt(keys[2], keys[1]))
        /\ Transitive
        /\ (~KeyLt(keys[1], keys[2]) /\ ~KeyLt(keys[2], keys[1]))
              <=> (Fold(nameA) = Fold(nameB))
        /\ (Fold(nameA) = Fold(nameB)) => keys[1] = keys[2]

\* Two distinct names that are tied, and a strictly ordered chain exists too.
C3_Witness ==
    /\ KeysComputed
    /\ nameA = <<"A", "0", "1">>
    /\ nameB = <<"a", "1">>
    /\ keys[1] = keys[2]
    /\ \E c \in Names : KeyLt(keys[2], KeyTable[c])

-----------------------------------------------------------------------------
(* Claims about the tokenizer (SpecTok).                                  *)

NoBraceIn(ps) == \A i \in 1..Len(ps) : ~HasBrace(ps[i])

\* C5, as claimed: for every payload a drag source formats from a list of
\* paths (in braces when the path contains whitespace, bare otherwise,
\* whitespace between two), the tokenizer emits exactly those paths, in order.
C5_FormattedPayloadTokens ==
    (TokDone /\ sent.formatted) => paths = sent.paths

\* C5, amended: the same, for paths that contain no brace character.
C5_BraceFreePayloadTokens ==
    (TokDone /\ sent.formatted /\ NoBraceIn(sent.paths)) => paths = sent.paths

\* A payload of a braced path with whitespace and a bare path, tokenized.
C5_Witness ==
    /\ TokDone /\ sent.formatted /\ NoBraceIn(sent.paths)
    /\ Len(sent.paths) = 2
    /\ HasSpace(sent.paths[1]) /\ ~HasSpace(sent.paths[2])
    /\ paths = sent.paths

\* Whether the character before position i was scanned inside braces: the
\* last brace before it is an opening one.
InsideAt(s, i) ==
    LET bs == {j \in 1..(i - 1) : s[j] \in Braces}
    IN  bs # {} /\ s[CHOOSE j \in bs : \A k \in bs : k <= j] = "{"

\* The payload without its braces and without the whitespace outside braces.
RECURSIVE StripFrom(_, _)
StripFrom(s, i) ==
    IF i > Len(s) THEN <<>>
    ELSE IF s[i] \in Braces \/ (IsSpace(s[i]) /\ ~InsideAt(s, i))
         THEN StripFrom(s, i + 1)
         ELSE <<s[i]>> \o StripFrom(s, i + 1)

RECURSIVE Concat(_)
Concat(ss) == IF ss = <<>> THEN <<>> ELSE Head(ss) \o Concat(Tail(ss))

\* C10: for every payload the tokenizer ends, emits no empty token and no
\* token with a brace, and drops no path character: the tokens, one after
\* the other, are the payload without its braces and without the whitespace
\* outside braces.
C10_NoPathCharacterDropped ==
    TokDone =>
        /\ \A i \in 1..Len(paths) : paths[i] # <<>> /\ ~HasBrace(paths[i])
        /\ Concat(paths) = StripFrom(raw, 1)

-----------------------------------------------------------------------------
(* Claims about the selection handlers (SpecSel). A step is a step of a   *)
(* handler on an input when the handler's action, on that input, holds of *)
(* the step.                                                              *)

OneGap == <<" ">>

NoImageAmong(ps) == \A i \in 1..Len(ps) : ~is_image(ps[i])
HasDir(ps) == \E i \in 1..Len(ps) : IsExistingDir(ps[i])
FirstDir(ps) ==
    ps[CHOOSE i \in 1..Len(ps) :
          IsExistingDir(ps[i]) /\ \A j \in 1..(i - 1) : ~IsExistingDir(ps[j])]

\* The files below (recursive) or in (not recursive) folder that pass is_image.
ImagesIn(folder, recursive) == {e \in Glob(folder, recursive) : is_image(e)}

\* The handler looks for images in the payload's first directory when it
\* has one, and among the payload's paths otherwise.
DropFindsNoImage(ps) ==
    IF HasDir(ps) THEN ImagesIn(FirstDir(ps), recursive_var) = {}
    ELSE NoImageAmong(ps)

IsSorted(images) ==
    \A i, j \in 1..Len(images) :
        i < j => ~NameLt(Name(images[j]), Name(images[i]))

Range(seq) == {seq[i] : i \in 1..Len(seq)}

\* C2, as claimed: every pick_files or on_drop invocation that finds no
\* qualifying image leaves the SelectionState as it was.
C2_NoImageKeepsSelection ==
    [][/\ \A fp \in FileChoices :
            (pick_files(fp) /\ NoImageAmong(fp)) => state' = state
       /\ \A ps \in DropLists \cup {<<>>} :
            (on_drop(Payload(ps, OneGap)) /\ DropFindsNoImage(ps)) => state' = state
      ]_vars

\* C2, amended: every pick_files invocation that finds no qualifying image,
\* and every on_drop invocation whose payload names no existing directory
\* and no qualifying image, leaves the SelectionState as it was; an on_drop
\* whose payload names an existing directory without a qualifying image
\* replaces the SelectionState by that folder with no image.
C2_NoImageKeepsSelectionUnlessFolder ==
    [][/\ \A fp \in FileChoices :
            (pick_files(fp) /\ NoImageAmong(fp)) => state' = state
       /\ \A ps \in DropLists \cup {<<>>} :
            (on_drop(Payload(ps, OneGap)) /\ DropFindsNoImage(ps)) =>
                IF HasDir(ps)
                THEN state' = SelectionState("folder", FirstDir(ps), <<>>)
                ELSE state' = state
      ]_vars

\* A selection with images that a pick or a drop without any image left alone.
C2_Witness ==
    /\ notice \in {"files_none", "drop_none"}
    /\ state.images # <<>>

\* C4: list_images_in_folder returns exactly the files of the folder that
\* pass is_image, in natural order, the same sequence for every order in
\* which the file system lists the folder, and an empty sequence for a
\* folder without images. pick_folder stores what it returns.
C4_FolderListingDeterministic ==
    [][\A folder \in Dirs :
          pick_folder(folder) =>
              /\ Range(state'.images) = ImagesIn(folder, recursive_var)
              /\ Len(state'.images) = Cardinality(ImagesIn(folder, recursive_var))
              /\ IsSorted(state'.images)
              /\ FolderResults(folder, recursive_var) = {state'.images}
      ]_vars

\* C6: when the existing paths of a drop payload include a directory, on_drop
\* replaces the SelectionState by mode folder, the first such directory, and
\* the images list_images_in_folder returns for that directory: all of them
\* files of that directory, whatever else the payload names.
C6_DropRoutesFirstFolder ==
    [][\A ps \in DropLists :
          (on_drop(Payload(ps, OneGap)) /\ HasDir(ps)) =>
              /\ state'.mode = "folder"
              /\ state'.source = FirstDir(ps)
              /\ state'.images \in FolderResults(FirstDir(ps), recursive_var)
              /\ Range(state'.images) = ImagesIn(FirstDir(ps), recursive_var)
      ]_vars

\* The empty folder selected by a drop: only on_drop shows this notice.
C6_Witness ==
    /\ notice = "drop_folder_empty"
    /\ state = SelectionState("folder", DirO, <<>>)

\* C7: in every reachable SelectionState no two entries of images are the
\* same file.
C7_ImagesUnique ==
    \A i, j \in 1..Len(state.images) :
        state.images[i] = state.images[j] => i = j

-----------------------------------------------------------------------------
(* Claims about the assembly (Spec).                                      *)

FileAt(fs, path) ==
    IF path \in DOMAIN fs THEN [present |-> TRUE, content |-> fs[path]]
    ELSE [present |-> FALSE, content |-> <<>>]

\* C1: when convert_images_to_pdf fails while encoding, what is at the
\* output path is what was there before the call: no new file, and the
\* earlier content of a file that existed.
C1_FailedEncodingLeavesOutput ==
    [][(pc = "encode" /\ outcome' = "AssemblyError") =>
          FileAt(outputs', conv.out) = FileAt(prior, conv.out)
      ]_vars

\* C8: a request with no image writes nothing: merge_to_pdf with an empty
\* selection returns without calling the converter, and the converter called
\* with an empty list raises before it makes a directory or a file.
C8_NoImagesNoWrite ==
    [][/\ (MergeStart /\ state.images = <<>>) =>
              (pc' = "idle" /\ conv' = NoConv /\ UNCHANGED fsVars)
       /\ (pc = "convert" /\ conv.images = <<>>) =>
              /\ UNCHANGED fsVars
              /\ pc' \in {"convert", "idle"}
              /\ pc' = "idle" => outcome' = "ValueError"
      ]_vars

\* The converter has rejected an empty list, and merge_to_pdf then refused a
\* selected folder without images.
C8_Witness ==
    /\ outcome = "ValueError"
    /\ notice = "select_first"
    /\ state.source # None /\ state.images = <<>>
    /\ outputs = NoFiles /\ madeDirs = {}

\* C9: while an assembly started by merge_to_pdf is in progress, the
\* application can handle a selection event.
C9_EventsHandledDuringAssembly ==
    (pc # "idle" /\ conv.caller = "merge") => ENABLED SelectionEvent

=============================================================================
